---- MODULE Spec2Model ----
(***************************************************************************)
(* lumo/kit/builder.py: the dataset builders.                              *)
(*                                                                         *)
(* DatasetBuilder keeps named sources (_input_dict), output keys bound to  *)
(* source names (_output_dict), per-source and per-outkey transforms, and  *)
(* the index indirection (_sub_indices, _reindices) of BaseBuilder.        *)
(* ChainDataset and ZipDataset compose member builders (_chunk).           *)
(*                                                                         *)
(* Python values are modelled as follows.                                  *)
(*   - An attribute that is None or a value is a set with at most one      *)
(*     element: None == {} and Some(v) == {v}.                             *)
(*   - A list/tuple is a sequence; Python position i is element i + 1.     *)
(*   - A dict is a function on the set of its keys.                        *)
(*   - A source is a sequence of integers (plain sized data; the           *)
(*     DataDelegate branch of __getitem__ needs lumo/kit/delegate.py and   *)
(*     is not modelled). A transform is one of two integer functions.      *)
(*   - A raised exception is recorded in exc, the call in call and the     *)
(*     value returned in ret.                                              *)
(***************************************************************************)
EXTENDS Integers, Sequences, FiniteSets, TLC

VARIABLES
    dataset_len,        \* DatasetBuilder._dataset_len
    input_dict,         \* DatasetBuilder._input_dict
    output_dict,        \* DatasetBuilder._output_dict
    input_transform,    \* DatasetBuilder._input_transform
    output_transform,   \* DatasetBuilder._output_transform
    sub_indices,        \* BaseBuilder._sub_indices
    reindices_,         \* BaseBuilder._reindices
    chunk,              \* ConcatDataset._chunk: the len() of each member builder
    counter,            \* ZipDataset._counter
    call,               \* the last call and its arguments
    exc,                \* the exception the last call raised, or "none"
    ret                 \* what the last call returned

vars == <<dataset_len, input_dict, output_dict, input_transform,
          output_transform, sub_indices, reindices_, chunk, counter,
          call, exc, ret>>

builderVars == <<dataset_len, input_dict, output_dict, input_transform,
                 output_transform>>
concatVars == <<chunk, counter>>

-----------------------------------------------------------------------------
(* Bounds of the model *)

\* longest source / member builder
MaxLen == 2
\* longest list given to subset() and reindices()
MaxIdxLen == 2
\* most member builders of a ChainDataset / ZipDataset
MaxMembers == 2

Names == {"xs", "ys"}
OutKeys == {"a", "b"}
SourceIds == {1, 2}
Transforms == {"f", "g"}

\* The source with identity id and n items: item k holds 10 * id + k.
Source(id, n) == [k \in 1..n |-> 10 * id + (k - 1)]
Sources == {Source(id, n) : id \in SourceIds, n \in 1..MaxLen}

SeqsUpTo(S, n) == UNION {[1..k -> S] : k \in 0..n}
IndexLists == SeqsUpTo(0..(MaxLen - 1), MaxIdxLen)

-----------------------------------------------------------------------------
(* Python values *)

None == {}
Some(v) == {v}
Get(o) == CHOOSE v \in o : TRUE

EmptyDict == [k \in {} |-> 0]
Values(d) == {d[k] : k \in DOMAIN d}

Ok(v) == [exc |-> "none", value |-> v]
Raise(e) == [exc |-> e, value |-> 0]

\* list[i] of Python: a negative i counts from the end.
ListGet(list, i) ==
    IF 0 <= i /\ i < Len(list) THEN Ok(list[i + 1])
    ELSE IF -Len(list) <= i /\ i < 0 THEN Ok(list[Len(list) + i + 1])
    ELSE Raise("IndexError")

\* transform(value) for the two transforms of the model
Apply(t, v) == IF t = "f" THEN v + 100 ELSE 2 * v

Self == [kind |-> "self"]

-----------------------------------------------------------------------------
(* BaseBuilder *)

raw_len == IF dataset_len = None THEN 0 ELSE Get(dataset_len)

\* BaseBuilder.__len__ over a raw length
BaseLen(raw) == IF sub_indices # None THEN Len(Get(sub_indices)) ELSE raw

__len__ == BaseLen(raw_len)

_check_len_unchecked(source) ==
    [raised |-> FALSE,
     dataset_len |-> IF dataset_len = None THEN Some(Len(source)) ELSE dataset_len]

_check_len(source) ==
    IF dataset_len = None
    THEN [raised |-> FALSE, dataset_len |-> Some(Len(source))]
    ELSE [raised |-> Get(dataset_len) # Len(source), dataset_len |-> dataset_len]

_map_index_reindex_first(index) ==
    LET a == IF reindices_ # None THEN ListGet(Get(reindices_), index) ELSE Ok(index)
    IN  IF a.exc # "none" THEN a
        ELSE IF sub_indices # None THEN ListGet(Get(sub_indices), a.value)
        ELSE a

_map_index(index) ==
    LET a == IF sub_indices # None THEN ListGet(Get(sub_indices), index) ELSE Ok(index)
    IN  IF a.exc # "none" THEN a
        ELSE IF reindices_ # None THEN ListGet(Get(reindices_), a.value)
        ELSE a

subset(indices) ==
    /\ sub_indices' = Some(indices)
    /\ call' = [op |-> "subset"]
    /\ exc' = "none"
    /\ ret' = Self
    /\ UNCHANGED <<builderVars, concatVars, reindices_>>

reindices(indices) ==
    /\ reindices_' = Some(indices)
    /\ call' = [op |-> "reindices"]
    /\ exc' = "none"
    /\ ret' = Self
    /\ UNCHANGED <<builderVars, concatVars, sub_indices>>

\* len(builder) called on a DatasetBuilder
len_builder ==
    /\ call' = [op |-> "len"]
    /\ exc' = "none"
    /\ ret' = [kind |-> "int", value |-> __len__]
    /\ UNCHANGED <<builderVars, concatVars, sub_indices, reindices_>>

-----------------------------------------------------------------------------
(* DatasetBuilder *)

\* The assertions: TRUE when the assertion passes.
_check_source_name_unchecked(name, added) ==
    IF added THEN TRUE ELSE name \in DOMAIN input_dict

_check_source_name(name, added) ==
    IF added THEN name \notin DOMAIN input_dict ELSE name \in DOMAIN input_dict

_check_outkey_name_unchecked(outkey, added) ==
    IF added THEN TRUE ELSE outkey \in DOMAIN output_dict

_check_outkey_name(outkey, added) ==
    IF added THEN outkey \notin DOMAIN output_dict ELSE outkey \in DOMAIN output_dict

\* d[key] = value of Python: binds a new key or replaces the value of an old one.
SetItem(d, key, value) == [k \in DOMAIN d \cup {key} |-> IF k = key THEN value ELSE d[k]]

add_input(name, source) ==
    LET c == _check_len(source) IN
    /\ call' = [op |-> "add_input", name |-> name, source |-> source]
    /\ ret' = Self
    /\ IF c.raised
       THEN /\ exc' = "AssertionError"
            /\ UNCHANGED <<dataset_len, input_dict>>
       ELSE /\ dataset_len' = c.dataset_len
            /\ IF _check_source_name(name, TRUE)
               THEN /\ input_dict' = SetItem(input_dict, name, source)
                    /\ exc' = "none"
               ELSE /\ exc' = "AssertionError"
                    /\ UNCHANGED input_dict
    /\ UNCHANGED <<output_dict, input_transform, output_transform,
                   sub_indices, reindices_, concatVars>>

add_output(name, outkey) ==
    /\ call' = [op |-> "add_output", name |-> name, outkey |-> outkey]
    /\ ret' = Self
    /\ IF _check_source_name(name, FALSE) /\ _check_outkey_name(outkey, TRUE)
       THEN /\ output_dict' = SetItem(output_dict, outkey, name)
            /\ exc' = "none"
       ELSE /\ exc' = "AssertionError"
            /\ UNCHANGED output_dict
    /\ UNCHANGED <<dataset_len, input_dict, input_transform, output_transform,
                   sub_indices, reindices_, concatVars>>

add_input_transform(name, transform) ==
    /\ call' = [op |-> "add_input_transform", name |-> name, transform |-> transform]
    /\ ret' = Self
    /\ IF _check_source_name(name, FALSE)
       THEN /\ input_transform' = SetItem(input_transform, name, transform)
            /\ exc' = "none"
       ELSE /\ exc' = "AssertionError"
            /\ UNCHANGED input_transform
    /\ UNCHANGED <<dataset_len, input_dict, output_dict, output_transform,
                   sub_indices, reindices_, concatVars>>

add_output_transform(outkey, transform) ==
    /\ call' = [op |-> "add_output_transform", outkey |-> outkey, transform |-> transform]
    /\ ret' = Self
    /\ IF _check_outkey_name(outkey, FALSE)
       THEN /\ output_transform' = SetItem(output_transform, outkey, transform)
            /\ exc' = "none"
       ELSE /\ exc' = "AssertionError"
            /\ UNCHANGED output_transform
    /\ UNCHANGED <<dataset_len, input_dict, output_dict, input_transform,
                   sub_indices, reindices_, concatVars>>

\* source_[index] for every source that an output key names
Reads(index) == [n \in Values(output_dict) |-> ListGet(input_dict[n], index)]

\* The sample DatasetBuilder.__getitem__ builds from the raw items read: input
\* transforms per source name, then the output keys, then output transforms
\* (no global transform is registered and _chain is False).
Sample(raw0) ==
    LET raw == [n \in DOMAIN raw0 |->
                  IF n \in DOMAIN input_transform
                  THEN Apply(input_transform[n], raw0[n]) ELSE raw0[n]]
        sample0 == [k \in DOMAIN output_dict |-> raw[output_dict[k]]]
    IN  [k \in DOMAIN output_dict |->
           IF k \in DOMAIN output_transform
           THEN Apply(output_transform[k], sample0[k]) ELSE sample0[k]]

\* ret.reads records the index each source was read at.
__getitem__(index) ==
    LET m == _map_index(index)
        reads == Reads(m.value)
    IN
    /\ call' = [op |-> "getitem", index |-> index]
    /\ IF m.exc # "none"
       THEN /\ exc' = m.exc
            /\ ret' = Self
       ELSE IF \E n \in DOMAIN reads : reads[n].exc # "none"
       THEN /\ exc' = "IndexError"
            /\ ret' = Self
       ELSE /\ exc' = "none"
            /\ ret' = [kind |-> "sample",
                       reads |-> [n \in DOMAIN reads |-> m.value],
                       sample |-> Sample([n \in DOMAIN reads |-> reads[n].value])]
    /\ UNCHANGED <<builderVars, sub_indices, reindices_, concatVars>>

-----------------------------------------------------------------------------
(* A DatasetBuilder under any sequence of calls *)

Init ==
    /\ dataset_len = None
    /\ input_dict = EmptyDict
    /\ output_dict = EmptyDict
    /\ input_transform = EmptyDict
    /\ output_transform = EmptyDict
    /\ sub_indices = None
    /\ reindices_ = None
    /\ chunk = << >>
    /\ counter = << >>
    /\ call = [op |-> "init"]
    /\ exc = "none"
    /\ ret = Self

Next ==
    \/ \E name \in Names, source \in Sources : add_input(name, source)
    \/ \E name \in Names, outkey \in OutKeys : add_output(name, outkey)
    \/ \E name \in Names, t \in Transforms : add_input_transform(name, t)
    \/ \E outkey \in OutKeys, t \in Transforms : add_output_transform(outkey, t)
    \/ \E index \in 0..(__len__ - 1) : __getitem__(index)

Spec == Init /\ [][Next]_vars

-----------------------------------------------------------------------------
(* Properties of DatasetBuilder under Spec *)

\* C1: every source of a builder has the same size. After any call all sources
\* of the input dict have length raw_len, and add_input with a source whose len
\* differs from the recorded dataset length raises and leaves the input dict
\* and the recorded length unchanged.
C1_SameSize ==
    [][ /\ \A n \in DOMAIN input_dict' : Len(input_dict'[n]) = raw_len'
        /\ (/\ call'.op = "add_input"
            /\ dataset_len # None
            /\ Len(call'.source) # Get(dataset_len))
           => (/\ exc' # "none"
               /\ input_dict' = input_dict
               /\ dataset_len' = dataset_len) ]_vars

\* A source of another size was refused by a builder that holds two sources.
C1_Witness ==
    /\ call.op = "add_input"
    /\ exc = "AssertionError"
    /\ dataset_len # None
    /\ Len(call.source) # Get(dataset_len)
    /\ Cardinality(DOMAIN input_dict) = 2

\* C2: each source has a different name. add_input with a name already present
\* raises, a successful add_input binds the name to the source given, and a
\* bound name keeps its source in every later step.
C2_NameKeepsFirstSource ==
    [][ /\ (call'.op = "add_input" /\ call'.name \in DOMAIN input_dict)
           => exc' # "none"
        /\ (call'.op = "add_input" /\ exc' = "none")
           => (/\ call'.name \in DOMAIN input_dict'
               /\ input_dict'[call'.name] = call'.source)
        /\ \A n \in DOMAIN input_dict :
              n \in DOMAIN input_dict' /\ input_dict'[n] = input_dict[n] ]_vars

\* A second source of the right size was refused for a name already bound to
\* another source.
C2_Witness ==
    /\ call.op = "add_input"
    /\ exc = "AssertionError"
    /\ call.name \in DOMAIN input_dict
    /\ Len(call.source) = Get(dataset_len)
    /\ input_dict[call.name] # call.source

\* C3: each output key maps to a source name that has been added, add_output
\* raises and leaves the output mapping unchanged when the name has not been
\* added or the outkey has been added, and an output key is never re-bound.
C3_OutputsBoundOnce ==
    [][ /\ \A k \in DOMAIN output_dict' : output_dict'[k] \in DOMAIN input_dict'
        /\ (/\ call'.op = "add_output"
            /\ (call'.name \notin DOMAIN input_dict \/ call'.outkey \in DOMAIN output_dict))
           => (exc' # "none" /\ output_dict' = output_dict)
        /\ \A k \in DOMAIN output_dict :
              k \in DOMAIN output_dict' /\ output_dict'[k] = output_dict[k] ]_vars

\* add_output was refused for an outkey bound to another source, both sources
\* being inputs of the builder.
C3_Witness ==
    /\ call.op = "add_output"
    /\ exc = "AssertionError"
    /\ call.name \in DOMAIN input_dict
    /\ call.outkey \in DOMAIN output_dict
    /\ output_dict[call.outkey] # call.name

\* C4: one source has one input transform and one outkey has one output
\* transform. A second add_input_transform with the same name, and a second
\* add_output_transform with the same outkey, raises and the first transform
\* stays in effect.
C4_OneTransform ==
    [][ /\ (call'.op = "add_input_transform" /\ call'.name \in DOMAIN input_transform)
           => (exc' # "none" /\ input_transform' = input_transform)
        /\ (call'.op = "add_output_transform" /\ call'.outkey \in DOMAIN output_transform)
           => (exc' # "none" /\ output_transform' = output_transform) ]_vars

-----------------------------------------------------------------------------
(* A DatasetBuilder with one source under subset(), reindices() and reads *)

IndexNames == {"xs"}
IndexOutKeys == {"a"}

NextIndex ==
    \/ \E name \in IndexNames, source \in Sources : add_input(name, source)
    \/ \E name \in IndexNames, outkey \in IndexOutKeys : add_output(name, outkey)
    \/ \E indices \in IndexLists : subset(indices)
    \/ \E indices \in IndexLists : reindices(indices)
    \/ \E index \in 0..(__len__ - 1) : __getitem__(index)
    \/ len_builder

SpecIndex == Init /\ [][NextIndex]_vars

\* C5: index mapping. __getitem__(i) reads every source at R[S[i]] for a
\* subset S and a re-indexing R, at S[i] with only a subset, at R[i] with only
\* a re-indexing and at i with neither, in whatever order subset() and
\* reindices() were called; len(builder) is len(S) when a subset is set and
\* raw_len otherwise.
C5_IndexMapping ==
    /\ (call.op = "getitem" /\ exc = "none") =>
          LET i == call.index
              expected ==
                  CASE sub_indices # None /\ reindices_ # None
                         -> Get(reindices_)[Get(sub_indices)[i + 1] + 1]
                    [] sub_indices # None /\ reindices_ = None
                         -> Get(sub_indices)[i + 1]
                    [] sub_indices = None /\ reindices_ # None
                         -> Get(reindices_)[i + 1]
                    [] OTHER -> i
          IN  /\ DOMAIN ret.reads = Values(output_dict)
              /\ \A n \in DOMAIN ret.reads : ret.reads[n] = expected
              /\ \A k \in DOMAIN output_dict :
                    (output_dict[k] \notin DOMAIN input_transform
                       /\ k \notin DOMAIN output_transform)
                    => ret.sample[k] = input_dict[output_dict[k]][expected + 1]
    /\ call.op = "len" =>
          ret.value = IF sub_indices # None THEN Len(Get(sub_indices))
                      ELSE IF DOMAIN input_dict = {} THEN 0
                      ELSE Len(input_dict[CHOOSE n \in DOMAIN input_dict : TRUE])

\* A read through a subset S and a re-indexing R at R[S[i]] = 0 where S[i] and
\* S[R[i]] are 1.
C5_Witness ==
    /\ call.op = "getitem"
    /\ exc = "none"
    /\ sub_indices # None
    /\ reindices_ # None
    /\ call.index = 0
    /\ Get(sub_indices) = <<1, 1>>
    /\ Get(reindices_) = <<0, 0>>
    /\ DOMAIN ret.reads # {}
    /\ \A n \in DOMAIN ret.reads : ret.reads[n] = 0

-----------------------------------------------------------------------------
(* ConcatDataset, ChainDataset, ZipDataset *)

\* A member builder is modelled by its len(); member j is chunk[j + 1], and a
\* member read at a position below its len() returns its sample there.
MemberLens == 0..MaxLen
Chunks == UNION {[1..k -> MemberLens] : k \in 1..MaxMembers}

RECURSIVE SumTo(_, _)
SumTo(lens, k) == IF k = 0 THEN 0 ELSE SumTo(lens, k - 1) + lens[k]

RECURSIVE MaxTo(_, _)
MaxTo(lens, k) ==
    IF k = 1 THEN lens[1]
    ELSE LET m == MaxTo(lens, k - 1) IN IF lens[k] > m THEN lens[k] ELSE m

ChainDataset_raw_len == SumTo(chunk, Len(chunk))

ZipDataset_raw_len == MaxTo(chunk, Len(chunk))

\* len(self) of a ChainDataset: BaseBuilder.__len__
ChainDataset_len == BaseLen(ChainDataset_raw_len)

\* len(self) of a ZipDataset: BaseBuilder.__len__ through ZipDataset.__len__
ZipDataset_len == BaseLen(ZipDataset_raw_len)

\* The members of _chunk as a tuple of member numbers, for self._chunk[...]
ChunkTuple == [j \in 1..Len(chunk) |-> j - 1]

\* ChainDataset.__getitem__ after the index is mapped: the first member whose
\* accumulated offset exceeds the index decides what is returned.
ChainLookup(index) ==
    LET hits == {i \in 1..Len(chunk) : index < SumTo(chunk, i)} IN
    IF hits = {} THEN [exc |-> "none", ret |-> [kind |-> "None"]]
    ELSE LET i == CHOOSE h \in hits : \A g \in hits : h <= g
             r == ListGet(ChunkTuple, index - chunk[i])
         IN  IF r.exc # "none" THEN [exc |-> r.exc, ret |-> Self]
             ELSE [exc |-> "none", ret |-> [kind |-> "builder", member |-> r.value]]

ChainDataset_getitem(index) ==
    LET m == _map_index(index)
        r == ChainLookup(m.value)
    IN
    /\ call' = [op |-> "getitem", index |-> index]
    /\ IF m.exc # "none"
       THEN exc' = m.exc /\ ret' = Self
       ELSE exc' = r.exc /\ ret' = r.ret
    /\ UNCHANGED <<builderVars, concatVars, sub_indices, reindices_>>

\* The loop of ZipDataset.__getitem__ from member k on: index is the loop's
\* running index, reads the positions read so far, n_counter the new counters.
RECURSIVE ZipLoop(_, _, _, _)
ZipLoop(k, index, reads, n_counter) ==
    IF k > Len(chunk) THEN [exc |-> "none", reads |-> reads, counter |-> n_counter]
    ELSE LET len_ == chunk[k]
             count == counter[k]
         IN  IF index >= len_
             THEN IF len_ = 0
                  THEN [exc |-> "ZeroDivisionError", reads |-> reads, counter |-> counter]
                  ELSE LET index2 == (index + count) % len_
                           count2 == (count + 1) % len_
                       IN  ZipLoop(k + 1, index2, Append(reads, index2),
                                   Append(n_counter, count2))
             ELSE ZipLoop(k + 1, index, Append(reads, index), Append(n_counter, count))

ZipDataset_getitem(index) ==
    LET m == _map_index(index)
        r == ZipLoop(1, m.value, << >>, << >>)
    IN
    /\ call' = [op |-> "getitem", index |-> index]
    /\ IF m.exc # "none"
       THEN exc' = m.exc /\ ret' = Self /\ UNCHANGED counter
       ELSE IF r.exc # "none"
       THEN exc' = r.exc /\ ret' = Self /\ UNCHANGED counter
       ELSE /\ exc' = "none"
            /\ ret' = [kind |-> "zip", reads |-> r.reads]
            /\ counter' = r.counter
    /\ UNCHANGED <<builderVars, chunk, sub_indices, reindices_>>

\* ConcatDataset.__init__ / ZipDataset.__init__ over the member builders
InitConcat ==
    /\ dataset_len = None
    /\ input_dict = EmptyDict
    /\ output_dict = EmptyDict
    /\ input_transform = EmptyDict
    /\ output_transform = EmptyDict
    /\ sub_indices = None
    /\ reindices_ = None
    /\ chunk \in Chunks
    /\ counter = [j \in 1..Len(chunk) |-> 0]
    /\ call = [op |-> "init"]
    /\ exc = "none"
    /\ ret = Self

NextChain ==
    \/ \E indices \in IndexLists : subset(indices)
    \/ \E indices \in IndexLists : reindices(indices)
    \/ \E index \in 0..(ChainDataset_len - 1) : ChainDataset_getitem(index)

SpecChain == InitConcat /\ [][NextChain]_vars

NextZip ==
    \/ \E indices \in IndexLists : subset(indices)
    \/ \E indices \in IndexLists : reindices(indices)
    \/ \E index \in 0..(ZipDataset_len - 1) : ZipDataset_getitem(index)

SpecZip == InitConcat /\ [][NextZip]_vars

\* The member holding position index of the concatenation, numbered from 0.
MemberOf(index) ==
    CHOOSE j \in 0..(Len(chunk) - 1) :
        SumTo(chunk, j) <= index /\ index < SumTo(chunk, j + 1)

\* C6: ChainDataset concatenates its members. Its raw length is the sum of the
\* members' lengths, and __getitem__(index) for 0 <= index < that sum returns
\* the sample of the member whose cumulative range contains the index, at the
\* position index minus the total length of the preceding members.
C6_ChainConcatenates ==
    /\ ChainDataset_raw_len = SumTo(chunk, Len(chunk))
    /\ (/\ call.op = "getitem"
        /\ sub_indices = None
        /\ reindices_ = None)
       => (/\ exc = "none"
           /\ ret = [kind |-> "sample",
                     member |-> MemberOf(call.index),
                     index |-> call.index - SumTo(chunk, MemberOf(call.index))])

\* C7: ZipDataset has raw length the maximum member length, and
\* __getitem__(index) for 0 <= index < that maximum reads every member longer
\* than the index at exactly that index, whatever the order of the members and
\* the earlier calls; a member not longer than the index is read at a wrapped
\* position in [0, len(member)).
C7_ZipReadsAtIndex ==
    /\ \A k \in 1..Len(chunk) : chunk[k] <= ZipDataset_raw_len
    /\ \E k \in 1..Len(chunk) : chunk[k] = ZipDataset_raw_len
    /\ (/\ call.op = "getitem"
        /\ sub_indices = None
        /\ reindices_ = None
        /\ \A k \in 1..Len(chunk) : chunk[k] > 0)
       => (/\ exc = "none"
           /\ Len(ret.reads) = Len(chunk)
           /\ \A k \in 1..Len(chunk) :
                 /\ chunk[k] > call.index => ret.reads[k] = call.index
                 /\ 0 <= ret.reads[k] /\ ret.reads[k] < chunk[k])

====
